---- MODULE Spec2Model ----
(***************************************************************************)
(* livestream-dl: the live capture engine.                                 *)
(*   - Stopper (src/src/livestream.rs:35-59)                               *)
(*   - Livestream::new, the playlist resolver (src/src/livestream/mod.rs)  *)
(*   - m3u8_fetcher, the playlist poller (src/src/livestream.rs:345-472)   *)
(*   - Livestream::download, fetch_segment, save_segment (mod.rs)          *)
(* The specifications share the variables: SpecStopper (the Stopper       *)
(* alone, driven by arbitrary clones), SpecResolver (variant selection),   *)
(* SpecPoller (one poller over arbitrary playlists), SpecWriter            *)
(* (save_segment and the file writes it leaves to the blocking pool),      *)
(* SpecNaming (file names) and Spec (a download run: poller tasks that     *)
(* send one request at a time, queue, bounded fetch stage, consumer loop,  *)
(* join), with FairSpec, FairPollers and FairRun adding fairness to it.    *)
(***************************************************************************)
EXTENDS Integers, Sequences, FiniteSets, TLC

\* ------------------------------------------------------------------ bounds
\* Longest variant list of a master playlist.
MaxVariants == 2
\* Total number of stop() calls the clones of SpecStopper make.
MaxStops == 2

VARIABLES
    \* Stopper: Arc<(Notify, Mutex<bool>)>
    flag,        \* the Mutex<bool>
    waiters,     \* holders whose Notified future is registered and not yet woken
    stopDone,    \* history: some stop() call has returned
    \* SpecStopper: the clones
    cpc,         \* clone -> "idle" | "stop_notify" | "waiting"
    obs,         \* clone -> what its last stopped() returned: "unread" | "T" | "F"
    stopCalls,   \* number of stop() calls begun
    \* SpecResolver
    entryKind,   \* what fetching and parsing the entry URL gives: "send_err" |
                 \* "body_err" | "master" | "media" | "invalid"
    variants,    \* the master playlist's variants, in source order
    alternatives, \* the master playlist's alternative media (EXT-X-MEDIA), in source order
    newResult,   \* the result of Livestream::new, st = "pending" before it ran
    \* SpecPoller: one m3u8_fetcher, stepped segment by segment
    spc,         \* "fetch" | "loop" | "sleep" | "done"
    sst,         \* the fetcher's locals (LoopState), res = its return value once done
    shdr,        \* the media playlist fetched by this iteration (header fields)
    sidx,        \* number of segments of it the loop has walked
    ssent,       \* the requests the last step sent on tx
    sprev,       \* history: key of the last Sequence request sent before that step
    shist,       \* history of the fetcher's lifetime and current iteration (PollerHistory0)
    \* SpecWriter: save_segment called on arbitrary fetched segments
    wInit,       \* init_map: HashMap<Stream, Vec<u8>>, a function on the streams cached
    wManifest,   \* downloaded_segments: Stream -> the (segment id, path) pairs pushed
    wFiles,      \* the segments directory: path -> file contents
    wPending,    \* the writes handed to the blocking pool and not yet carried out
    wFmt,        \* the format detected by the latest save_segment call
    wLast,       \* the latest save_segment call: its input, the cache it saw, its result
    wCalls,      \* number of save_segment calls made
    \* SpecNaming: the file names of two Sequence segments of one stream
    nkeys,       \* the two ordering keys <<discon_seq, seq>>, each number a u64
    nnames,      \* <<>> before the names are built, then the two file names
    \* Spec: one run of Livestream::download
    noFailFast,  \* options.no_fail_fast
    served,      \* task -> the number of segments its stream's playlist grows to
    handles,     \* the Vec of join handles: the tasks in spawn order, which is the
                 \* iteration order of the HashMap self.streams; nothing depends on
                 \* the order before the join loop, where it is drawn (<<>> until then)
    pc,          \* task -> where it is (see TaskPcs)
    pres,        \* task -> "none", or the task's result "ok" | "err"
    fst,         \* task -> the fetcher's locals (LoopState)
    media_playlist, \* task -> the playlist its iteration fetched (NoPlaylist outside one)
    walked,      \* task -> number of segments of it the segment loop has passed
    wait,        \* task -> the wait chosen by its last iteration
    failed,      \* m3u8_reader_failed
    ext,         \* the caller's clone of the Stopper: "idle" | "stop_notify" (inside stop())
    queue,       \* the unbounded channel tx -> rx
    inflight,    \* the Buffered stage: fetches in progress, in request order
    dpc,         \* download: "mkdir" | "loop" | "save" | "remux" | "join" | "returned"
    cur,         \* the request of the tuple save_segment is working on (<<>>: none)
    dres,        \* download's result: "none" | "ok" | "err_io" | "err_fetch" | ...
    joined,      \* number of handles joined
    init_map,    \* Stream -> cached initialization ("none" if absent)
    downloaded_segments, \* Stream -> the manifest: keys of the saved segments
    enq,         \* history: the requests sent on tx, in the order of the sends
    taken,       \* history: number of results buffered.next() has yielded
    lost,        \* history: requests that left the pipeline unsaved, with the cause
    overslept    \* history: tasks that slept a full wait after a poller's stop()

vars == <<flag, waiters, stopDone, cpc, obs, stopCalls, entryKind, variants, alternatives,
          newResult,
          spc, sst, shdr, sidx, ssent, sprev, shist,
          wInit, wManifest, wFiles, wPending, wFmt, wLast, wCalls, nkeys, nnames,
          noFailFast, served, handles, pc, pres, fst, media_playlist, walked, wait, failed,
          ext, queue, inflight, dpc, cur, dres, joined, init_map, downloaded_segments,
          enq, taken, lost, overslept>>

stopperVars == <<flag, waiters, stopDone>>
cloneVars == <<cpc, obs, stopCalls>>
resolverVars == <<entryKind, variants, alternatives, newResult>>
pollerVars == <<spc, sst, shdr, sidx, ssent, sprev, shist>>
writerVars == <<wInit, wManifest, wFiles, wPending, wFmt, wLast, wCalls>>
namingVars == <<nkeys, nnames>>
taskVars == <<pc, pres, fst, media_playlist, walked, wait, enq, overslept>>
consumerVars ==
    <<queue, inflight, dpc, cur, dres, joined, init_map, downloaded_segments, taken, lost>>
runVars == <<noFailFast, served, handles, failed, ext, taskVars, consumerVars>>

\* ================================================================ Stopper

\* Stopper::new: Mutex::new(false), a Notify with no waiter.
StopperNew == [flag |-> FALSE, waiters |-> {}]

\* What stop() stores in the mutex: a second stop() clears a set flag.
StopStoreToggle(f) == ~f

\* A stop() that leaves the flag as it is.
StopStoreNothing(f) == f

\* stop(): *self.0.1.lock().await = true
StopStore(f) == TRUE

\* tokio Notify::notify_waiters: wakes the waiters registered now, and stores
\* no permit for a waiter that registers later.
NotifyWaiters(w) == {}

\* stopped(): *self.0.1.lock().await
StoppedValue(f) == f

Clones == {"c1", "c2", "c3"}

\* A clone begins stop(): takes the lock and sets the flag.
CloneStopStore(c) ==
    /\ cpc[c] = "idle"
    /\ stopCalls < MaxStops
    /\ flag' = StopStore(flag)
    /\ cpc' = [cpc EXCEPT ![c] = "stop_notify"]
    /\ stopCalls' = stopCalls + 1
    /\ UNCHANGED <<waiters, stopDone, obs, resolverVars, writerVars, namingVars, pollerVars, runVars>>

\* The same stop() call notifies the waiters and returns.
CloneStopNotify(c) ==
    /\ cpc[c] = "stop_notify"
    /\ waiters' = NotifyWaiters(waiters)
    /\ stopDone' = TRUE
    /\ cpc' = [cpc EXCEPT ![c] = "idle"]
    /\ UNCHANGED <<flag, obs, stopCalls, resolverVars, writerVars, namingVars, pollerVars, runVars>>

\* A clone calls stopped().
CloneStopped(c) ==
    /\ cpc[c] = "idle"
    /\ obs' = [obs EXCEPT ![c] = IF StoppedValue(flag) THEN "T" ELSE "F"]
    /\ UNCHANGED <<stopperVars, cpc, stopCalls, resolverVars, writerVars, namingVars, pollerVars, runVars>>

\* A clone calls wait(): notified() registers it as a waiter.
CloneWaitBegin(c) ==
    /\ cpc[c] = "idle"
    /\ waiters' = waiters \cup {c}
    /\ cpc' = [cpc EXCEPT ![c] = "waiting"]
    /\ UNCHANGED <<flag, stopDone, obs, stopCalls, resolverVars, writerVars, namingVars, pollerVars, runVars>>

\* wait() returns: the clone was woken by notify_waiters.
CloneWaitReturn(c) ==
    /\ cpc[c] = "waiting"
    /\ c \notin waiters
    /\ cpc' = [cpc EXCEPT ![c] = "idle"]
    /\ UNCHANGED <<stopperVars, obs, stopCalls, resolverVars, writerVars, namingVars, pollerVars, runVars>>

\* ================================================= Livestream::new, resolver

\* The bandwidth attribute is a string; these are the strings tried.
BwStrings ==
    { <<"1">>, <<"2">>, <<"1", "1">>, <<"+", "2">>, <<"0", "2">>, <<"x">> }

\* Variant URIs: one that resolves and one that make_absolute_url rejects.
VariantUris == {"a.m3u8", "::bad"}

\* The audio, video and subtitles attributes of a variant ("none": absent).
\* add_alternative matches on the group id alone, so a variant naming the same
\* group twice registers the group's renditions under both kinds.
VariantGroups ==
    { [audio |-> "none", video |-> "none", subtitles |-> "none"],
      [audio |-> "g", video |-> "none", subtitles |-> "none"],
      [audio |-> "g", video |-> "g", subtitles |-> "h"] }

\* VariantStream: the fields Livestream::new reads.
Variant ==
    { [bandwidth |-> b, uri |-> u, audio |-> g.audio, video |-> g.video,
       subtitles |-> g.subtitles] : b \in BwStrings, u \in VariantUris, g \in VariantGroups }

VariantLists == UNION { [1..n -> Variant] : n \in 0..MaxVariants }

\* AlternativeMedia: group_id, name, language ("None": absent), uri ("none": absent).
AlternativeEn == [group_id |-> "g", name |-> "en", language |-> "en", uri |-> "en.m3u8"]
AlternativeFr == [group_id |-> "g", name |-> "en", language |-> "fr", uri |-> "fr.m3u8"]
AlternativeBad == [group_id |-> "g", name |-> "en", language |-> "en", uri |-> "::bad"]
AlternativeNoUri == [group_id |-> "g", name |-> "en", language |-> "None", uri |-> "none"]
AlternativeSub == [group_id |-> "h", name |-> "en", language |-> "None", uri |-> "::bad"]

\* The alternative-media lists tried.
AlternativeLists ==
    { <<>>, <<AlternativeEn>>, <<AlternativeBad>>, <<AlternativeNoUri, AlternativeSub>>,
      <<AlternativeEn, AlternativeFr>> }

Digits == {"0", "1", "2", "3", "4", "5", "6", "7", "8", "9"}

DigitVal(c) ==
    CASE c = "0" -> 0 [] c = "1" -> 1 [] c = "2" -> 2 [] c = "3" -> 3 [] c = "4" -> 4
      [] c = "5" -> 5 [] c = "6" -> 6 [] c = "7" -> 7 [] c = "8" -> 8 [] c = "9" -> 9

\* The Err of str::parse::<u64>.
NoneU64 == -1

RECURSIVE DigitsValue(_, _)
DigitsValue(s, acc) ==
    IF s = <<>> THEN acc ELSE DigitsValue(Tail(s), acc * 10 + DigitVal(Head(s)))

\* v.bandwidth.parse::<u64>().ok(): an optional leading "+", then one or more
\* decimal digits; anything else is an error. (A value above u64::MAX is an
\* error too; BwStrings holds no string that long.)
ParseU64(s) ==
    LET body == IF s # <<>> /\ Head(s) = "+" THEN Tail(s) ELSE s
    IN  IF body = <<>> \/ \E i \in 1..Len(body) : body[i] \notin Digits
        THEN NoneU64
        ELSE DigitsValue(body, 0)

\* filter_map(|v| Some((v.bandwidth.parse::<u64>().ok()?, v))): the variants
\* whose bandwidth parses, in source order, each as <<bandwidth, index>>.
RECURSIVE FilterParsable(_, _)
FilterParsable(vs, i) ==
    IF i > Len(vs) THEN <<>>
    ELSE LET b == ParseU64(vs[i].bandwidth)
         IN  (IF b = NoneU64 THEN <<>> ELSE << <<b, i>> >>) \o FilterParsable(vs, i + 1)

\* min_by_key in place of max_by_key.
MaxPickMin(best, next) == IF next[1] <= best[1] THEN next ELSE best

\* A maximum that keeps the first of equal elements.
MaxPickFirst(best, next) == IF next[1] > best[1] THEN next ELSE best

\* Iterator::max_by_key keeps the later of two elements that compare equal.
MaxPick(best, next) == IF next[1] >= best[1] THEN next ELSE best

RECURSIVE MaxByKeyFrom(_, _, _)
MaxByKeyFrom(items, i, best) ==
    IF i > Len(items) THEN best ELSE MaxByKeyFrom(items, i + 1, MaxPick(best, items[i]))

\* .max_by_key(|(x, _)| *x): <<>> for None.
MaxByKey(items) ==
    IF items = <<>> THEN <<>> ELSE MaxByKeyFrom(items, 2, items[1])

\* make_absolute_url(url, uri): an absolute URL, or an error.
MakeAbsoluteUrl(uri) == IF uri = "::bad" THEN "err" ELSE uri

\* HashMap::insert(k, v).
MapInsert(m, k, v) == [j \in DOMAIN m \cup {k} |-> IF j = k THEN v ELSE m[j]]

\* Stream identities (enum Stream).
MainStream == [kind |-> "Main", name |-> "", lang |-> "None"]
AudioStream == [kind |-> "Audio", name |-> "en", lang |-> "en"]

\* streams: the HashMap<Stream, Url> built so far; idx: the variant chosen.
NoResult == [st |-> "pending", err |-> "", idx |-> 0, mainUrl |-> "", streams |-> <<>>]

\* The closure add_alternative(group, f): every alternative of the group that
\* has a URI is inserted under f(name, language), from position i on; the first
\* URI make_absolute_url rejects ends it with Err. kind stands for f.
RECURSIVE AddAlternative(_, _, _, _, _)
AddAlternative(r, alts, i, group, kind) ==
    IF r.st = "err" \/ i > Len(alts) THEN r
    ELSE IF alts[i].group_id # group \/ alts[i].uri = "none"
    THEN AddAlternative(r, alts, i + 1, group, kind)
    ELSE IF MakeAbsoluteUrl(alts[i].uri) = "err"
    THEN [r EXCEPT !.st = "err", !.err = "url"]
    ELSE AddAlternative(
            [r EXCEPT !.streams =
                MapInsert(@, [kind |-> kind, name |-> alts[i].name, lang |-> alts[i].language],
                          MakeAbsoluteUrl(alts[i].uri))],
            alts, i + 1, group, kind)

\* if let Some(group) = max_stream.audio { add_alternative(group, ...)?; }
AddGroup(r, alts, group, kind) ==
    IF group = "none" THEN r ELSE AddAlternative(r, alts, 1, group, kind)

\* What the request for the entry URL and the parse of its body can give:
\* send().await? fails, bytes().await? fails, or parse_playlist sees a master
\* playlist, a media playlist or neither.
EntryKinds == {"send_err", "body_err", "master", "media", "invalid"}

\* Livestream::new from the request for the entry URL on. A failed call returns
\* no map; a failed request returns before anything is parsed.
ResolveStreams(kind, vs, alts) ==
    IF kind = "send_err" THEN [NoResult EXCEPT !.st = "err", !.err = "send"]
    ELSE IF kind = "body_err" THEN [NoResult EXCEPT !.st = "err", !.err = "body"]
    ELSE IF kind = "invalid" THEN [NoResult EXCEPT !.st = "err", !.err = "parse"]
    ELSE IF kind = "media"
    THEN [NoResult EXCEPT !.st = "ok", !.mainUrl = "final_url",
                          !.streams = MapInsert(<<>>, MainStream, "final_url")]
    ELSE LET m == MaxByKey(FilterParsable(vs, 1))
         IN  IF m = <<>> THEN [NoResult EXCEPT !.st = "err", !.err = "No streams found"]
             ELSE IF MakeAbsoluteUrl(vs[m[2]].uri) = "err"
                  THEN [NoResult EXCEPT !.st = "err", !.err = "url"]
                  ELSE
                  LET v == vs[m[2]]
                      r0 == [NoResult EXCEPT !.st = "ok", !.idx = m[2],
                                 !.mainUrl = MakeAbsoluteUrl(v.uri),
                                 !.streams = MapInsert(<<>>, MainStream, MakeAbsoluteUrl(v.uri))]
                      r1 == AddGroup(r0, alts, v.audio, "Audio")
                      r2 == AddGroup(r1, alts, v.video, "Video")
                      r3 == AddGroup(r2, alts, v.subtitles, "Subtitle")
                  IN  IF r3.st = "err" THEN [NoResult EXCEPT !.st = "err", !.err = r3.err]
                      ELSE r3

Resolve ==
    /\ newResult.st = "pending"
    /\ newResult' = ResolveStreams(entryKind, variants, alternatives)
    /\ UNCHANGED <<stopperVars, cloneVars, entryKind, variants, alternatives, writerVars, namingVars, pollerVars, runVars>>

\* ======================================================= m3u8_fetcher, poller

\* Encryption::new(client, key, url, seq): the context of the declared key, or
\* an error when the key cannot be resolved.
EncryptionNew(key) == IF key = "::bad" THEN "err" ELSE key

\* a <= b and a < b on ordering keys (Rust's lexicographic tuple order).
KeyLE(a, b) == a[1] < b[1] \/ (a[1] = b[1] /\ a[2] <= b[2])
KeyLT(a, b) == a[1] < b[1] \/ (a[1] = b[1] /\ a[2] < b[2])

\* The skip test with > in place of >=.
AlreadyDownloadedStrict(last, key) == last # <<>> /\ KeyLT(key, last)

\* if let Some(s) = last_seg { if s >= (discon_seq, seq) { continue; } }
AlreadyDownloaded(last, key) == last # <<>> /\ KeyLE(key, last)

\* The fetcher's locals: last_seg (<<>> for None) and init_downloaded live for
\* the whole task; discon_offset, encryption and found_new_segments are declared
\* inside the loop body. res: "run", "send" (between the two sends of a loop
\* pass), or how the fetcher returned ("err": Err, "closed": Ok after a failed
\* send, "ok": Ok at the end of the list). out: the requests the last step sent.
LoopState0 ==
    [last_seg |-> <<>>, init_downloaded |-> FALSE, discon_offset |-> 0,
     encryption |-> "None", found |-> FALSE, res |-> "run", out |-> <<>>]

\* The top of an iteration with init_downloaded declared inside the loop too.
IterationStartResetInit(st) ==
    [st EXCEPT !.discon_offset = 0, !.encryption = "None", !.found = FALSE, !.out = <<>>,
               !.init_downloaded = FALSE]

\* let mut found_new_segments = false; let mut discon_offset = 0;
\* let mut encryption = Encryption::None;  (top of every iteration)
IterationStart(st) ==
    [st EXCEPT !.discon_offset = 0, !.encryption = "None", !.found = FALSE, !.out = <<>>]

InitializationReq(stream, seg) ==
    [stream |-> stream, kind |-> "init", key |-> <<>>, url |-> seg.map, enc |-> "None"]

SequenceReq(stream, seg, key, enc) ==
    [stream |-> stream, kind |-> "seq", key |-> key, url |-> seg.uri, enc |-> enc]

\* if segment.discontinuity { discon_offset += 1; }
DisconOffset(off, seg) == off + (IF seg.disc THEN 1 ELSE 0)

\* The ordering key without the playlist's discontinuity-sequence base.
OrderingKeyNoBase(hdr, off, i) == <<off, hdr.media_sequence + (i - 1)>>

\* (discon_seq, seq) of the i-th segment (1-based): seq comes from
\* (media_playlist.media_sequence..).zip(segments), and
\* discon_seq = media_playlist.discontinuity_sequence + discon_offset.
OrderingKey(hdr, off, i) == <<hdr.discontinuity_sequence + off, hdr.media_sequence + (i - 1)>>

\* The loop body on the i-th segment (1-based) of the playlist with header hdr,
\* from its top to the point where the segment's URL is parsed: the skip test,
\* the key, last_seg and found_new_segments, and the unbounded_send of the
\* Initialization request. res = "send" afterwards: the Sequence request of
\* this segment is still to be sent. rxAlive: the receiver of the queue exists.
SegHead(st, hdr, i, seg, stream, rxAlive) ==
    LET off == DisconOffset(st.discon_offset, seg)
        key == OrderingKey(hdr, off, i)
        st1 == [st EXCEPT !.discon_offset = off, !.out = <<>>]
    IN  IF AlreadyDownloaded(st.last_seg, key) THEN st1
        ELSE
        LET enc == IF seg.key = "none" THEN st.encryption ELSE EncryptionNew(seg.key)
        IN  IF enc = "err" THEN [st1 EXCEPT !.res = "err"]
            ELSE
            LET st2 == [st1 EXCEPT !.encryption = enc, !.last_seg = key, !.found = TRUE]
                needInit == ~st.init_downloaded /\ seg.map # "none"
            IN  IF needInit /\ MakeAbsoluteUrl(seg.map) = "err" THEN [st2 EXCEPT !.res = "err"]
                ELSE IF needInit /\ ~rxAlive THEN [st2 EXCEPT !.res = "closed"]
                ELSE IF needInit
                THEN [st2 EXCEPT !.init_downloaded = TRUE, !.res = "send",
                                 !.out = <<InitializationReq(stream, seg)>>]
                ELSE [st2 EXCEPT !.res = "send"]

\* The rest of the loop body, from a state with res = "send": the segment's
\* URL is parsed and the Sequence request is sent with the key (discon_seq,
\* seq), which last_seg holds, and a clone of the encryption context.
SegTail(st, seg, stream, rxAlive) ==
    IF MakeAbsoluteUrl(seg.uri) = "err" THEN [st EXCEPT !.res = "err"]
    ELSE IF ~rxAlive THEN [st EXCEPT !.res = "closed"]
    ELSE [st EXCEPT !.res = "run",
                    !.out = @ \o <<SequenceReq(stream, seg, st.last_seg, st.encryption)>>]

\* One whole pass of the segment loop body.
SegStep(st, hdr, i, seg, stream, rxAlive) ==
    LET h == SegHead(st, hdr, i, seg, stream, rxAlive)
    IN  IF h.res = "send" THEN SegTail(h, seg, stream, rxAlive) ELSE h

\* A wait that is the target duration whatever the iteration found.
WaitDurationAlwaysFull(found) == "full"

\* if found_new_segments { target_duration } else { target_duration / 2.0 }
WaitDuration(found) == IF found THEN "full" ELSE "half"

\* ---- SpecPoller: one fetcher over arbitrary playlists

SegDisc == BOOLEAN
SegKeys == {"none", "k1", "::bad"}
SegMaps == {"none", "m1", "m2", "::bad"}
SegUris == {"s.ts", "::bad"}
MediaSegment == [disc : SegDisc, key : SegKeys, map : SegMaps, uri : SegUris]

\* Longest media playlist.
MaxSegs == 2
\* Largest media-sequence base and discontinuity-sequence base a playlist declares.
MaxMediaSequence == 1
MaxDisconSequence == 1

PlaylistHeader ==
    [media_sequence : 0..MaxMediaSequence, discontinuity_sequence : 0..MaxDisconSequence,
     len : 0..MaxSegs, end_list : BOOLEAN]

NoHeader == [media_sequence |-> 0, discontinuity_sequence |-> 0, len |-> 0, end_list |-> FALSE]

\* Keys of the Sequence requests among reqs, in order.
SeqKeys(reqs) ==
    LET idx == { i \in 1..Len(reqs) : reqs[i].kind = "seq" }
        F[i \in 0..Len(reqs)] ==
            IF i = 0 THEN <<>>
            ELSE IF i \in idx THEN Append(F[i - 1], reqs[i].key) ELSE F[i - 1]
    IN  F[Len(reqs)]

\* What the history records about a fetcher. Of the current iteration: last0
\* and init0 (last_seg and init_downloaded when the playlist was fetched), nsent
\* (requests sent), discs (the discontinuity marks of the segments walked),
\* allOld (every segment walked had a key <= last0), wait (the wait chosen).
\* Of the whole lifetime: ninit (Initialization requests sent), resolved (the
\* context Encryption::new last returned), mapNow / mapBefore (the latest step
\* / an earlier step handled a non-skipped segment that carries a map).
PollerHistory0 ==
    [last0 |-> <<>>, init0 |-> FALSE, nsent |-> 0, discs |-> <<>>, allOld |-> TRUE,
     wait |-> "none", ninit |-> 0, resolved |-> "None", mapNow |-> FALSE, mapBefore |-> FALSE]

\* The history at the top of an iteration.
HistoryIterationStart(h, st) ==
    [h EXCEPT !.last0 = st.last_seg, !.init0 = st.init_downloaded, !.nsent = 0,
              !.discs = <<>>, !.allOld = TRUE, !.wait = "none",
              !.mapBefore = h.mapBefore \/ h.mapNow, !.mapNow = FALSE]

\* The history after the loop body ran on segment seg (the i-th) from state st
\* and left state n.
HistorySegment(h, st, n, hdr, i, seg) ==
    LET key == OrderingKey(hdr, DisconOffset(st.discon_offset, seg), i)
        reached == ~AlreadyDownloaded(st.last_seg, key)
        encOk == reached /\ (seg.key = "none" \/ EncryptionNew(seg.key) # "err")
    IN  [h EXCEPT !.nsent = @ + Len(n.out),
                  !.discs = Append(@, seg.disc),
                  !.allOld = @ /\ h.last0 # <<>> /\ KeyLE(key, h.last0),
                  !.ninit = @ + Cardinality({ j \in 1..Len(n.out) : n.out[j].kind = "init" }),
                  !.resolved = IF encOk /\ seg.key # "none" THEN EncryptionNew(seg.key) ELSE @,
                  !.mapBefore = h.mapBefore \/ h.mapNow,
                  !.mapNow = encOk /\ seg.map # "none"]

\* client.get(url).send().await?.bytes().await? and parse_media_playlist succeed.
PollerFetch ==
    /\ spc = "fetch"
    /\ \E h \in PlaylistHeader :
        /\ shdr' = h
        /\ sst' = IterationStart(sst)
    /\ shist' = HistoryIterationStart(shist, sst')
    /\ spc' = "loop"
    /\ sidx' = 0
    /\ ssent' = <<>>
    /\ sprev' = IF SeqKeys(ssent) = <<>> THEN sprev ELSE SeqKeys(ssent)[Len(SeqKeys(ssent))]
    /\ UNCHANGED <<stopperVars, cloneVars, resolverVars, writerVars, namingVars, runVars>>

\* The playlist fetch or parse fails: the fetcher returns Err.
PollerFetchFail ==
    /\ spc = "fetch"
    /\ sst' = [IterationStart(sst) EXCEPT !.res = "err"]
    /\ shist' = HistoryIterationStart(shist, sst')
    /\ spc' = "done"
    /\ ssent' = <<>>
    /\ sprev' = IF SeqKeys(ssent) = <<>> THEN sprev ELSE SeqKeys(ssent)[Len(SeqKeys(ssent))]
    /\ UNCHANGED <<stopperVars, cloneVars, resolverVars, writerVars, namingVars, shdr, sidx, runVars>>

\* The loop body on the next segment of the playlist.
PollerSegment ==
    /\ spc = "loop"
    /\ sidx < shdr.len
    /\ \E seg \in MediaSegment :
        /\ sst' = SegStep(sst, shdr, sidx + 1, seg, MainStream, TRUE)
        /\ shist' = HistorySegment(shist, sst, sst', shdr, sidx + 1, seg)
    /\ sidx' = sidx + 1
    /\ ssent' = sst'.out
    /\ sprev' = IF SeqKeys(ssent) = <<>> THEN sprev ELSE SeqKeys(ssent)[Len(SeqKeys(ssent))]
    /\ spc' = IF sst'.res = "run" THEN "loop" ELSE "done"
    /\ UNCHANGED <<stopperVars, cloneVars, resolverVars, writerVars, namingVars, shdr, runVars>>

\* After the loop: return Ok on end_list, else choose the wait and sleep.
PollerEndIteration ==
    /\ spc = "loop"
    /\ sidx = shdr.len
    /\ spc' = IF shdr.end_list THEN "done" ELSE "sleep"
    /\ sst' = IF shdr.end_list THEN [sst EXCEPT !.res = "ok", !.out = <<>>]
              ELSE [sst EXCEPT !.out = <<>>]
    /\ shist' = [shist EXCEPT !.wait = IF shdr.end_list THEN "none" ELSE WaitDuration(sst.found),
                              !.mapBefore = shist.mapBefore \/ shist.mapNow, !.mapNow = FALSE]
    /\ ssent' = <<>>
    /\ sprev' = IF SeqKeys(ssent) = <<>> THEN sprev ELSE SeqKeys(ssent)[Len(SeqKeys(ssent))]
    /\ UNCHANGED <<stopperVars, cloneVars, resolverVars, writerVars, namingVars, shdr, sidx, runVars>>

\* The sleep ends and stopped() is false: next iteration.
PollerWake ==
    /\ spc = "sleep"
    /\ spc' = "fetch"
    /\ UNCHANGED <<stopperVars, cloneVars, resolverVars, writerVars, namingVars, sst, shdr, sidx, ssent, sprev, shist, runVars>>

\* ===================================================== Livestream::download

\* The spawned m3u8 reader tasks, one per entry of self.streams.
Tasks == {"t1", "t2"}
StreamOf(t) == IF t = "t1" THEN MainStream ELSE AudioStream
Streams == { StreamOf(t) : t \in Tasks }

\* network_options.max_concurrent_downloads
MaxConcurrent == 2

\* The orders in which `for (stream, url) in &self.streams` can spawn the
\* tasks and push their handles: a HashMap iterates in an arbitrary order.
HandleOrders == { h \in [1..Cardinality(Tasks) -> Tasks] : \A t \in Tasks : \E i \in DOMAIN h : h[i] = t }

\* Task positions. "fetch": at the top of the fetcher's loop, the playlist
\* request not yet answered; "walk": in the segment loop, between two passes or
\* after the last; "send": inside a pass, before the Sequence request is sent;
\* "select": in the select!, registered as a waiter; "stop": the fetcher
\* returned Err and the task is about to call stopper.stop(); "stop_notify":
\* inside stop(), the flag is set and the lock released; "store": stop() has
\* returned and m3u8_reader_failed is about to be stored; "done": the task has
\* finished.
TaskPcs == {"fetch", "walk", "send", "select", "stop", "stop_notify", "store", "done"}

\* A sender that outlives its poller.
HoldsSenderAlways(t) == TRUE

\* The task still holds its clone of tx (it is inside m3u8_fetcher).
HoldsSender(t) == pc[t] \in {"fetch", "walk", "send", "select"}

NoWait == [kind |-> "none", late |-> FALSE]

\* What outlives an iteration: last_seg and init_downloaded.
Persistent(st) ==
    [LoopState0 EXCEPT !.last_seg = st.last_seg, !.init_downloaded = st.init_downloaded]

\* The live streams of a run: how many segments each task's playlist grows to
\* while the run lasts. Either the main stream publishes two segments or the
\* audio stream publishes one; the poller of the other stream runs all the
\* same, on a playlist that stays empty.
RunShapes ==
    { [t \in Tasks |-> IF t = "t1" THEN 2 ELSE 0], [t \in Tasks |-> IF t = "t1" THEN 0 ELSE 1] }

\* The playlists the pollers of a download run are served: the main stream is
\* fragmented MP4 (every segment carries the same EXT-X-MAP), the audio stream
\* is MPEG-TS (no EXT-X-MAP); segments are appended and none expires.
RunSegment(t) ==
    [disc |-> FALSE, key |-> "none", map |-> IF t = "t1" THEN "m1" ELSE "none", uri |-> "s.ts"]
RunLens(t) == 0..served[t]
RunPlaylists(t) ==
    { [hdr |-> [media_sequence |-> 0, discontinuity_sequence |-> 0, len |-> n, end_list |-> e],
       segs |-> [i \in 1..n |-> RunSegment(t)]] : n \in RunLens(t), e \in BOOLEAN }

NoPlaylist == [hdr |-> NoHeader, segs |-> <<>>]

\* A failed poller's stop() has returned.
PollerStopReturned ==
    \E q \in Tasks : pc[q] = "store" \/ (pc[q] = "done" /\ pres[q] = "err" /\ ~noFailFast)

\* Where a task goes when m3u8_fetcher returns Err:
\* if r.is_err() && !no_fail_fast { stopper.stop().await; ...store(true) }
AfterErr(nff) == IF nff THEN "done" ELSE "stop"

\* Where the task is after a step of the segment loop that left res.
AfterLoopStep(res, nff) ==
    IF res = "send" THEN "send"
    ELSE IF res = "run" THEN "walk"
    ELSE IF res = "err" THEN AfterErr(nff)
    ELSE "done"

\* The playlist request completes and parse_media_playlist succeeds; the
\* iteration's locals are declared.
PollFetch(t) ==
    /\ pc[t] = "fetch"
    /\ \E pl \in RunPlaylists(t) : media_playlist' = [media_playlist EXCEPT ![t] = pl]
    /\ fst' = [fst EXCEPT ![t] = IterationStart(@)]
    /\ walked' = [walked EXCEPT ![t] = 0]
    /\ pc' = [pc EXCEPT ![t] = "walk"]
    /\ UNCHANGED <<stopperVars, cloneVars, resolverVars, writerVars, namingVars, pollerVars, noFailFast, served, handles,
                   failed, ext, pres, wait, enq, overslept, consumerVars>>

\* The playlist fetch or parse fails: m3u8_fetcher returns Err.
PollFetchFail(t) ==
    /\ pc[t] = "fetch"
    /\ pc' = [pc EXCEPT ![t] = AfterErr(noFailFast)]
    /\ pres' = [pres EXCEPT ![t] = IF pc'[t] = "done" THEN "err" ELSE @]
    /\ UNCHANGED <<stopperVars, cloneVars, resolverVars, writerVars, namingVars, pollerVars, noFailFast, served, handles,
                   failed, ext, fst, media_playlist, walked, wait, enq, overslept, consumerVars>>

\* The segment loop takes the next segment of the fetched playlist: it skips
\* it, or sends the Initialization request if one is due and goes on to parse
\* the segment's URL. A failed send (the receiver is dropped when download has
\* returned) ends the fetcher with Ok.
PollSegment(t) ==
    /\ pc[t] = "walk"
    /\ walked[t] < media_playlist[t].hdr.len
    /\ LET i == walked[t] + 1
           h == SegHead(fst[t], media_playlist[t].hdr, i, media_playlist[t].segs[i],
                        StreamOf(t), dpc # "returned")
       IN  /\ queue' = queue \o h.out
           /\ enq' = enq \o h.out
           /\ pc' = [pc EXCEPT ![t] = AfterLoopStep(h.res, noFailFast)]
           /\ pres' = [pres EXCEPT ![t] = IF pc'[t] # "done" THEN @
                                          ELSE IF h.res = "err" THEN "err" ELSE "ok"]
           /\ fst' = [fst EXCEPT ![t] = IF h.res \in {"send", "run"}
                                        THEN [h EXCEPT !.out = <<>>] ELSE Persistent(h)]
           /\ walked' = [walked EXCEPT ![t] = IF h.res = "run" THEN i
                                              ELSE IF h.res = "send" THEN @ ELSE 0]
           /\ media_playlist' = [media_playlist EXCEPT ![t] =
                                    IF h.res \in {"send", "run"} THEN @ ELSE NoPlaylist]
    /\ UNCHANGED <<stopperVars, cloneVars, resolverVars, writerVars, namingVars, pollerVars, noFailFast, served, handles,
                   failed, ext, wait, overslept, inflight, dpc, dres, joined, init_map,
                   downloaded_segments, taken, lost, cur>>

\* The same pass of the segment loop parses the segment's URL and sends its
\* Sequence request.
PollSend(t) ==
    /\ pc[t] = "send"
    /\ LET i == walked[t] + 1
           r == SegTail(fst[t], media_playlist[t].segs[i], StreamOf(t), dpc # "returned")
       IN  /\ queue' = queue \o r.out
           /\ enq' = enq \o r.out
           /\ pc' = [pc EXCEPT ![t] = AfterLoopStep(r.res, noFailFast)]
           /\ pres' = [pres EXCEPT ![t] = IF pc'[t] # "done" THEN @
                                          ELSE IF r.res = "err" THEN "err" ELSE "ok"]
           /\ fst' = [fst EXCEPT ![t] = IF r.res = "run"
                                        THEN [r EXCEPT !.out = <<>>] ELSE Persistent(r)]
           /\ walked' = [walked EXCEPT ![t] = IF r.res = "run" THEN i ELSE 0]
           /\ media_playlist' = [media_playlist EXCEPT ![t] =
                                    IF r.res = "run" THEN @ ELSE NoPlaylist]
    /\ UNCHANGED <<stopperVars, cloneVars, resolverVars, writerVars, namingVars, pollerVars, noFailFast, served, handles,
                   failed, ext, wait, overslept, inflight, dpc, dres, joined, init_map,
                   downloaded_segments, taken, lost, cur>>

\* After the segment loop: return Ok if the playlist ended; else the wait is
\* chosen and the task enters the select!, where notify_stop.wait() registers
\* it as a waiter.
PollEndIteration(t) ==
    /\ pc[t] = "walk"
    /\ walked[t] = media_playlist[t].hdr.len
    /\ LET ended == media_playlist[t].hdr.end_list
       IN  /\ pc' = [pc EXCEPT ![t] = IF ended THEN "done" ELSE "select"]
           /\ pres' = [pres EXCEPT ![t] = IF ended THEN "ok" ELSE @]
           /\ waiters' = IF ended THEN waiters ELSE waiters \cup {t}
           /\ wait' = [wait EXCEPT ![t] =
                            IF ended THEN NoWait
                            ELSE [kind |-> WaitDuration(fst[t].found),
                                  late |-> PollerStopReturned]]
    /\ fst' = [fst EXCEPT ![t] = Persistent(@)]
    /\ walked' = [walked EXCEPT ![t] = 0]
    /\ media_playlist' = [media_playlist EXCEPT ![t] = NoPlaylist]
    /\ UNCHANGED <<flag, stopDone, cloneVars, resolverVars, writerVars, namingVars, pollerVars, noFailFast, served, handles,
                   failed, ext, enq, overslept, consumerVars>>

\* A loop that does not look at stopped() after the select!.
AfterSelectAlwaysFetch(f) == "fetch"

\* Where the loop goes after the select!:
\* if notify_stop.stopped().await { return Ok(()); }
AfterSelect(f) == IF StoppedValue(f) THEN "done" ELSE "fetch"

\* select!: notify_stop.wait() completes, the task was woken by
\* notify_waiters; then the stopped() check.
SelectWake(t) ==
    /\ pc[t] = "select"
    /\ t \notin waiters
    /\ pc' = [pc EXCEPT ![t] = AfterSelect(flag)]
    /\ pres' = [pres EXCEPT ![t] = IF pc'[t] = "done" THEN "ok" ELSE @]
    /\ wait' = [wait EXCEPT ![t] = NoWait]
    /\ UNCHANGED <<stopperVars, cloneVars, resolverVars, writerVars, namingVars, pollerVars, noFailFast, served, handles,
                   failed, ext, fst, media_playlist, walked, enq, overslept, consumerVars>>

\* select!: the sleep_until completes first and the Notified future is
\* dropped; then the stopped() check.
SelectTimeout(t) ==
    /\ pc[t] = "select"
    /\ t \in waiters
    /\ waiters' = waiters \ {t}
    /\ pc' = [pc EXCEPT ![t] = AfterSelect(flag)]
    /\ pres' = [pres EXCEPT ![t] = IF pc'[t] = "done" THEN "ok" ELSE @]
    /\ overslept' = IF wait[t].late /\ wait[t].kind = "full" THEN overslept \cup {t}
                    ELSE overslept
    /\ wait' = [wait EXCEPT ![t] = NoWait]
    /\ UNCHANGED <<flag, stopDone, cloneVars, resolverVars, writerVars, namingVars, pollerVars, noFailFast, served, handles,
                   failed, ext, fst, media_playlist, walked, enq, consumerVars>>

\* stopper.stop().await in the task of a failed fetcher: the flag is set
\* under the lock, and the lock is released.
TaskStopStore(t) ==
    /\ pc[t] = "stop"
    /\ flag' = StopStore(flag)
    /\ pc' = [pc EXCEPT ![t] = "stop_notify"]
    /\ UNCHANGED <<waiters, stopDone, cloneVars, resolverVars, writerVars, namingVars, pollerVars, noFailFast, served, handles,
                   failed, ext, pres, fst, media_playlist, walked, wait, enq, overslept, consumerVars>>

\* The same stop() call notifies the waiters and returns.
TaskStopNotify(t) ==
    /\ pc[t] = "stop_notify"
    /\ waiters' = NotifyWaiters(waiters)
    /\ stopDone' = TRUE
    /\ pc' = [pc EXCEPT ![t] = "store"]
    /\ UNCHANGED <<flag, cloneVars, resolverVars, writerVars, namingVars, pollerVars, noFailFast, served, handles,
                   failed, ext, pres, fst, media_playlist, walked, wait, enq, overslept, consumerVars>>

\* m3u8_reader_failed.store(true, SeqCst); the task ends with r.
TaskStoreFailed(t) ==
    /\ pc[t] = "store"
    /\ failed' = TRUE
    /\ pc' = [pc EXCEPT ![t] = "done"]
    /\ pres' = [pres EXCEPT ![t] = "err"]
    /\ UNCHANGED <<stopperVars, cloneVars, resolverVars, writerVars, namingVars, pollerVars, noFailFast, served, handles,
                   ext, fst, media_playlist, walked, wait, enq, overslept, consumerVars>>

\* The caller's clone of the Stopper (returned by Livestream::new): a stop()
\* call, which the caller may make any number of times, sets the flag.
ExtStopStore ==
    /\ ext = "idle"
    /\ flag' = StopStore(flag)
    /\ ext' = "stop_notify"
    /\ UNCHANGED <<waiters, stopDone, cloneVars, resolverVars, writerVars, namingVars, pollerVars, noFailFast, served, handles,
                   failed, taskVars, consumerVars>>

\* The caller's stop() call notifies the waiters and returns.
ExtStopNotify ==
    /\ ext = "stop_notify"
    /\ waiters' = NotifyWaiters(waiters)
    /\ stopDone' = TRUE
    /\ ext' = "idle"
    /\ UNCHANGED <<flag, cloneVars, resolverVars, writerVars, namingVars, pollerVars, noFailFast, served, handles,
                   failed, taskVars, consumerVars>>

\* ---- the consumer side of download

\* rx and `buffered` (the queue and the fetches in progress) are locals of
\* download: they are dropped when it returns (d: where download goes).
DroppedOnReturn(d, x) == IF d = "returned" THEN <<>> ELSE x

\* fs::create_dir_all(&segments_directory).await?
DlMkdir ==
    /\ dpc = "mkdir"
    /\ \E ok \in BOOLEAN :
        /\ dpc' = IF ok THEN "loop" ELSE "returned"
        /\ dres' = IF ok THEN dres ELSE "err_io"
    /\ queue' = DroppedOnReturn(dpc', queue)
    /\ UNCHANGED <<stopperVars, cloneVars, resolverVars, writerVars, namingVars, pollerVars, noFailFast, served, handles,
                   failed, ext, taskVars, inflight, joined, init_map,
                   downloaded_segments, taken, lost, cur>>

\* A Buffered stage that pulls whatever is queued.
SlotFreeAlways(n) == TRUE

\* Buffered::poll_next: it polls rx for another request only while
\* in_progress_queue.len() < max (.buffered(max_concurrent_downloads)).
SlotFree(n) == n < MaxConcurrent

\* Buffered pulls the next request from rx while fewer than
\* max_concurrent_downloads fetches are in progress, and starts its fetch.
DlAdmit ==
    /\ dpc = "loop"
    /\ queue # <<>>
    /\ SlotFree(Len(inflight))
    /\ inflight' = Append(inflight, [req |-> Head(queue), st |-> "pending"])
    /\ queue' = Tail(queue)
    /\ UNCHANGED <<stopperVars, cloneVars, resolverVars, writerVars, namingVars, pollerVars, noFailFast, served, handles,
                   failed, ext, taskVars, dpc, dres, joined, init_map,
                   downloaded_segments, taken, lost, cur>>

\* fetch_segment completes for the i-th fetch in progress, with Ok or Err.
FetchComplete(i) ==
    /\ dpc = "loop"
    /\ i \in 1..Len(inflight)
    /\ inflight[i].st = "pending"
    /\ \E r \in {"ok", "err"} : inflight' = [inflight EXCEPT ![i].st = r]
    /\ UNCHANGED <<stopperVars, cloneVars, resolverVars, writerVars, namingVars, pollerVars, noFailFast, served, handles,
                   failed, ext, taskVars, queue, dpc, dres, joined, init_map,
                   downloaded_segments, taken, lost, cur>>

\* The ways save_segment's I/O can end: all well, MediaFormat::detect fails,
\* File::create fails, write_all returns the error of a failed write, or a
\* write fails unreported (after write_all returned, see WriteLand).
IoOutcomes == {"ok", "detect", "create", "write", "write_lost"}

\* save_segment((stream, segment, bytes), init_map, downloaded_segments, dir)
SaveSegment(x, im, ds, io) ==
    IF x.kind = "init"
    THEN [init_map |-> [im EXCEPT ![x.stream] = x.url], downloaded_segments |-> ds,
          res |-> "ok"]
    ELSE IF io \in {"detect", "create", "write"}
         THEN [init_map |-> im, downloaded_segments |-> ds, res |-> "err"]
         ELSE [init_map |-> im,
               downloaded_segments |-> [ds EXCEPT ![x.stream] = Append(@, x.key)],
               res |-> "ok"]

\* A consumer loop without the break.
BreakNowNever(f, fl) == FALSE

\* A consumer loop that breaks as soon as the Stopper is stopped.
BreakNowOnStop(f, fl) == StoppedValue(f)

\* if self.stopper.stopped().await && m3u8_reader_failed.load(SeqCst) { break; }
BreakNow(f, fl) == StoppedValue(f) /\ fl

LostEntry(req, why) == [stream |-> req.stream, kind |-> req.kind, key |-> req.key, why |-> why]

\* A fetch stage that yields the first fetch to have completed, as
\* buffer_unordered would.
YieldIndexUnordered(fl) ==
    IF \E i \in 1..Len(fl) : fl[i].st # "pending"
    THEN CHOOSE i \in 1..Len(fl) :
            /\ fl[i].st # "pending"
            /\ \A j \in 1..(i - 1) : fl[j].st = "pending"
    ELSE 0

\* Buffered keeps its futures in a FuturesOrdered: next() yields the oldest
\* fetch in progress once it has completed, and nothing before that (0).
YieldIndex(fl) == IF fl # <<>> /\ fl[1].st # "pending" THEN 1 ELSE 0

\* fl without its k-th element.
RemoveAt(fl, k) == SubSeq(fl, 1, k - 1) \o SubSeq(fl, k + 1, Len(fl))

\* One turn of `while let Some(x) = buffered.next().await`: the oldest fetch
\* in progress has completed and is yielded; then the break check and `x?`.
\* An Ok tuple goes to save_segment.
DlNext ==
    /\ dpc = "loop"
    /\ YieldIndex(inflight) # 0
    /\ LET x == inflight[YieldIndex(inflight)]
       IN  IF BreakNow(flag, failed)
           THEN /\ dpc' = "remux"
                /\ lost' = lost \cup {LostEntry(x.req, "break")}
                /\ UNCHANGED <<dres, cur>>
           ELSE IF x.st = "err"
           THEN /\ dpc' = "returned"
                /\ dres' = "err_fetch"
                /\ lost' = lost \cup {LostEntry(x.req, "fetch")}
                /\ UNCHANGED cur
           ELSE /\ dpc' = "save"
                /\ cur' = x.req
                /\ UNCHANGED <<dres, lost>>
    /\ inflight' = DroppedOnReturn(dpc', RemoveAt(inflight, YieldIndex(inflight)))
    /\ queue' = DroppedOnReturn(dpc', queue)
    /\ taken' = taken + 1
    /\ UNCHANGED <<stopperVars, cloneVars, resolverVars, writerVars, namingVars, pollerVars, noFailFast, served, handles,
                   failed, ext, taskVars, joined, init_map, downloaded_segments>>

\* save_segment(id_data, ...).await completes, some time after the break check
\* (it awaits MediaFormat::detect and the file I/O); an Err is logged. The
\* fetches in progress are futures of `buffered` and are not polled meanwhile.
DlSave ==
    /\ dpc = "save"
    /\ \E io \in IoOutcomes :
        LET r == SaveSegment(cur, init_map, downloaded_segments, io)
        IN  /\ init_map' = r.init_map
            /\ downloaded_segments' = r.downloaded_segments
            /\ lost' = IF r.res = "err" THEN lost \cup {LostEntry(cur, "save")} ELSE lost
    /\ dpc' = "loop"
    /\ cur' = <<>>
    /\ UNCHANGED <<stopperVars, cloneVars, resolverVars, writerVars, namingVars, pollerVars, noFailFast, served, handles,
                   failed, ext, taskVars, queue, inflight, dres, joined, taken>>

\* buffered.next() yields None: every sender is dropped and nothing is queued
\* or in progress.
DlEnd ==
    /\ dpc = "loop"
    /\ queue = <<>>
    /\ inflight = <<>>
    /\ \A t \in Tasks : ~HoldsSender(t)
    /\ dpc' = "remux"
    /\ UNCHANGED <<stopperVars, cloneVars, resolverVars, writerVars, namingVars, pollerVars, noFailFast, served, handles,
                   failed, ext, taskVars, queue, inflight, dres, joined, init_map,
                   downloaded_segments, taken, lost, cur>>

\* if !options.no_remux { remux(...).await?; }  (no_remux behaves as "ok");
\* then `for handle in handles` starts, in the order the tasks were spawned.
DlRemux ==
    /\ dpc = "remux"
    /\ \E r \in {"ok", "err"} :
        /\ dpc' = IF r = "ok" THEN "join" ELSE "returned"
        /\ dres' = IF r = "ok" THEN dres ELSE "err_remux"
        /\ IF r = "ok" THEN handles' \in HandleOrders ELSE UNCHANGED handles
    /\ queue' = DroppedOnReturn(dpc', queue)
    /\ inflight' = DroppedOnReturn(dpc', inflight)
    /\ UNCHANGED <<stopperVars, cloneVars, resolverVars, writerVars, namingVars, pollerVars, noFailFast, served,
                   failed, ext, taskVars, joined, init_map,
                   downloaded_segments, taken, lost, cur>>

\* A join that drops the task's result.
JoinOutcomeIgnored(r) == "ok"

\* handle.await??: the task's own result.
JoinOutcome(r) == r

\* for handle in handles { handle.await??; }  then Ok(())
DlJoin ==
    /\ dpc = "join"
    /\ joined < Cardinality(Tasks)
    /\ pc[handles[joined + 1]] = "done"
    /\ LET r == JoinOutcome(pres[handles[joined + 1]])
       IN  IF r = "err"
           THEN /\ dpc' = "returned"
                /\ dres' = "err_poller"
                /\ UNCHANGED joined
           ELSE /\ joined' = joined + 1
                /\ dpc' = IF joined' = Cardinality(Tasks) THEN "returned" ELSE "join"
                /\ dres' = IF joined' = Cardinality(Tasks) THEN "ok" ELSE dres
    /\ queue' = DroppedOnReturn(dpc', queue)
    /\ inflight' = DroppedOnReturn(dpc', inflight)
    /\ UNCHANGED <<stopperVars, cloneVars, resolverVars, writerVars, namingVars, pollerVars, noFailFast, served, handles,
                   failed, ext, taskVars, init_map,
                   downloaded_segments, taken, lost, cur>>

\* ============================================= Segment::id and file names

\* A u64 is written as its decimal digits, most significant first, without
\* leading zeros, so that values up to u64::MAX can be told apart.
Nines10 == <<"9", "9", "9", "9", "9", "9", "9", "9", "9", "9">>
TenPow10 == <<"1", "0", "0", "0", "0", "0", "0", "0", "0", "0", "0">>
U64Max == <<"1", "8", "4", "4", "6", "7", "4", "4", "0", "7", "3", "7", "0", "9", "5", "5",
            "1", "6", "1", "5">>

\* The u64 values tried as discon_seq and seq.
U64Samples == { <<"0">>, <<"1">>, <<"9">>, <<"1", "0">>, Nines10, TenPow10, U64Max }

Letters == <<"a", "b", "c", "d", "e", "f", "g", "h", "i", "j", "k", "l", "m",
             "n", "o", "p", "q", "r", "s", "t", "u", "v", "w", "x", "y", "z">>

\* The byte of an ASCII character of a file name.
CharCode(c) ==
    IF c = "." THEN 46
    ELSE IF c \in Digits THEN 48 + DigitVal(c)
    ELSE IF c = "_" THEN 95
    ELSE 96 + (CHOOSE i \in 1..Len(Letters) : Letters[i] = c)

\* a < b on strings: Rust's str order, bytewise lexicographic.
StrLess(a, b) ==
    \/ Len(a) < Len(b) /\ \A i \in 1..Len(a) : a[i] = b[i]
    \/ \E i \in 1..Len(a) :
        /\ i <= Len(b)
        /\ \A j \in 1..(i - 1) : a[j] = b[j]
        /\ CharCode(a[i]) < CharCode(b[i])

\* a < b on u64 values given by their digits.
U64Less(a, b) == Len(a) < Len(b) \/ (Len(a) = Len(b) /\ StrLess(a, b))

\* (d1, s1) < (d2, s2) on ordering keys of u64 values.
U64KeyLess(k1, k2) == U64Less(k1[1], k2[1]) \/ (k1[1] = k2[1] /\ U64Less(k1[2], k2[2]))

\* The minimum field width of "{:010}".
IdWidth == 10

\* format!("{:010}", n): n's digits, left-padded with zeros to IdWidth
\* characters; a longer number is written in full.
ZeroPad(n) ==
    IF Len(n) >= IdWidth THEN n
    ELSE [i \in 1..IdWidth |-> IF i <= IdWidth - Len(n) THEN "0" ELSE n[i - (IdWidth - Len(n))]]

\* Segment::id(): "init", or format!("d{:010}s{:010}", d, s).
SegmentId(kind, key) ==
    IF kind = "init" THEN <<"i", "n", "i", "t">>
    ELSE <<"d">> \o ZeroPad(key[1]) \o <<"s">> \o ZeroPad(key[2])

\* The characters of the stream names used.
NameChars(n) == IF n = "en" THEN <<"e", "n">> ELSE <<>>

\* impl Display for Stream: "main", "video_{name}", "audio_{name}",
\* "subtitle_{name}"; the language is not written.
StreamDisplay(stream) ==
    IF stream.kind = "Main" THEN <<"m", "a", "i", "n">>
    ELSE IF stream.kind = "Video" THEN <<"v", "i", "d", "e", "o", "_">> \o NameChars(stream.name)
    ELSE IF stream.kind = "Audio" THEN <<"a", "u", "d", "i", "o", "_">> \o NameChars(stream.name)
    ELSE <<"s", "u", "b", "t", "i", "t", "l", "e", "_">> \o NameChars(stream.name)

\* The container formats MediaFormat::detect tells apart here.
Formats == {"ts", "mp4"}

\* MediaFormat::extension().
FormatExtension(fmt) == IF fmt = "ts" THEN <<"t", "s">> ELSE <<"m", "p", "4">>

\* format!("segment_{}_{}.{}", stream, id, format.extension())
FileName(stream, id, fmt) ==
    <<"s", "e", "g", "m", "e", "n", "t", "_">> \o StreamDisplay(stream) \o <<"_">> \o id
        \o <<".">> \o FormatExtension(fmt)

\* ---- SpecNaming: the file names of two Sequence segments of one stream

NamingInputs ==
    [stream : Streams, k1 : U64Samples \X U64Samples, k2 : U64Samples \X U64Samples,
     f1 : Formats, f2 : Formats]

\* save_segment builds the path of each of the two segments.
BuildNames ==
    /\ nnames = <<>>
    /\ nnames' = << FileName(nkeys.stream, SegmentId("seq", nkeys.k1), nkeys.f1),
                    FileName(nkeys.stream, SegmentId("seq", nkeys.k2), nkeys.f2) >>
    /\ UNCHANGED <<stopperVars, cloneVars, resolverVars, pollerVars, writerVars, nkeys, runVars>>

\* ================================================= save_segment, on bytes

\* Most save_segment calls SpecWriter makes.
MaxSaves == 2

\* The byte strings fetched (after decryption).
ByteStrings == { <<>>, <<"x">>, <<"y">> }

\* The ordering keys of the segments SpecWriter saves.
WriterKeys == { << <<"0">>, <<"1">> >>, << <<"1">>, <<"0">> >> }

\* A second audio rendition with the same name in another language.
AudioStreamFr == [kind |-> "Audio", name |-> "en", lang |-> "fr"]

\* The streams whose segments SpecWriter saves.
WriterStreams == Streams \cup {AudioStreamFr}

\* SegmentIdData: (stream, segment, bytes).
WriterInputs ==
    [stream : WriterStreams, kind : {"init"}, key : {<<>>}, bytes : ByteStrings]
        \cup [stream : WriterStreams, kind : {"seq"}, key : WriterKeys, bytes : ByteStrings]

\* if let Some(init) = init_map.get(&stream) {
\*     bytes = init.iter().chain(bytes.iter()).copied().collect(); }
PrependInit(im, stream, bytes) ==
    IF stream \in DOMAIN im THEN im[stream] \o bytes ELSE bytes

\* tokio::fs::File. File::create(path).await runs std's File::create (create or
\* truncate) and waits for it. write_all calls poll_write until every byte is
\* taken; a poll_write on an idle File copies at most max_buf_size bytes into
\* the File's buffer, hands their write to a thread of the blocking pool and
\* returns Ok at once; a poll_write on a File whose last write has not ended
\* waits for it and returns its error if it failed. So the last chunk of a
\* write_all is still to be written when write_all returns, and save_segment
\* drops the File without flush: the write goes on on its thread, and its
\* error, if any, is seen by nobody.
\* A byte of the model stands for a run of bytes, so a chunk is any non-empty
\* leading part of the bytes not yet handed over.
ChunkSizes(rest) == 1..Len(rest)

\* A write handed to the blocking pool by save_segment call number `call`: the
\* bytes go to the file at `path`, at the offset `off` of the File's cursor.
PendingWrite(call, path, off, bytes) ==
    [call |-> call, path |-> path, off |-> off, bytes |-> bytes]

\* What a hole reads as (a write past the end of a truncated file leaves one).
Nul == "nul"

\* The content of a file that held f after bytes are written at offset off.
WriteAt(f, off, bytes) ==
    IF bytes = <<>> THEN f
    ELSE [i \in 1..(IF Len(f) > off + Len(bytes) THEN Len(f) ELSE off + Len(bytes)) |->
            IF i > off /\ i <= off + Len(bytes) THEN bytes[i - off]
            ELSE IF i <= Len(f) THEN f[i] ELSE Nul]

\* How save_segment can go up to its first poll_write. kind: "none" (an
\* Initialization: no I/O), "detect" (MediaFormat::detect fails), "create"
\* (File::create fails), "ok"; n: the size of the first chunk.
FirstOutcomes(x, data) ==
    IF x.kind = "init" THEN {[kind |-> "none", fmt |-> "none", n |-> 0]}
    ELSE {[kind |-> "detect", fmt |-> "none", n |-> 0]}
            \cup {[kind |-> "create", fmt |-> f, n |-> 0] : f \in Formats}
            \cup {[kind |-> "ok", fmt |-> f, n |-> n] :
                        f \in Formats, n \in (IF data = <<>> THEN {0} ELSE ChunkSizes(data))}

\* The record of a save_segment call. x: its input; cached, init: what
\* init_map held for the stream when it began; path: the file it created
\* (<<>>: none); handed: how many of its bytes were handed to the blocking
\* pool; res: "run" while write_all waits for a write, then "ok" | "err"
\* (the value returned); io: "none", the step that failed ("detect", "create",
\* "write": reported by poll_write), "ok", or "write_lost" (a write that failed
\* with nobody waiting for it); had: the number of entries the stream's
\* manifest held when the call began.
NoSave ==
    [x |-> <<>>, cached |-> FALSE, init |-> <<>>, path |-> <<>>, handed |-> 0,
     res |-> "none", io |-> "none", had |-> 0]

\* downloaded_segments.entry(stream).or_default().push((segment, file_path))
PushEntry(ds, x, fmt, path) == [ds EXCEPT ![x.stream] = Append(@, <<x.key, fmt, path>>)]

\* save_segment((stream, segment, bytes), init_map, downloaded_segments, dir),
\* call number `call`, from its start to its return or to the point where
\* write_all waits for the first chunk o.n < Len(data) of the data: the maps,
\* the directory and the writes in flight afterwards, and the call's record.
SaveSegmentBytes(call, x, im, ds, files, pending, o) ==
    LET data == PrependInit(im, x.stream, x.bytes)
        rec == [NoSave EXCEPT !.x = x, !.cached = x.stream \in DOMAIN im,
                              !.had = Len(ds[x.stream]),
                              !.init = IF x.stream \in DOMAIN im THEN im[x.stream] ELSE <<>>]
        same == [init_map |-> im, downloaded_segments |-> ds, files |-> files,
                 pending |-> pending, fmt |-> o.fmt, last |-> rec]
    IN  IF x.kind = "init"
        THEN [same EXCEPT !.init_map = MapInsert(im, x.stream, x.bytes), !.last.res = "ok"]
        ELSE IF o.kind = "detect"
        THEN [same EXCEPT !.last.res = "err", !.last.io = "detect"]
        ELSE
        LET path == FileName(x.stream, SegmentId(x.kind, x.key), o.fmt)
        IN  IF o.kind = "create"
            THEN [same EXCEPT !.last.res = "err", !.last.io = "create", !.last.path = path]
            ELSE
            LET created == [same EXCEPT !.files = MapInsert(files, path, <<>>),
                                        !.last.path = path, !.last.handed = o.n,
                                        !.pending = IF o.n = 0 THEN pending
                                                    ELSE pending \cup
                                                        {PendingWrite(call, path, 0,
                                                                      SubSeq(data, 1, o.n))}]
            IN  IF o.n = Len(data)
                THEN [created EXCEPT !.last.res = "ok", !.last.io = "ok",
                                     !.downloaded_segments = PushEntry(ds, x, o.fmt, path)]
                ELSE [created EXCEPT !.last.res = "run", !.last.io = "ok"]

\* The bytes save_segment call `last` writes.
DataOf(last) == IF last.cached THEN last.init \o last.x.bytes ELSE last.x.bytes

\* ---- SpecWriter: the consumer hands arbitrary fetched segments to
\* save_segment, one call after the other, while the blocking pool carries out
\* the writes handed to it

\* save_segment is called; it returns, or write_all waits for its first chunk.
WriterSave ==
    /\ wCalls < MaxSaves
    /\ wLast.res # "run"
    /\ \E x \in WriterInputs :
        \E o \in FirstOutcomes(x, PrependInit(wInit, x.stream, x.bytes)) :
            LET r == SaveSegmentBytes(wCalls + 1, x, wInit, wManifest, wFiles, wPending, o)
            IN  /\ wInit' = r.init_map
                /\ wManifest' = r.downloaded_segments
                /\ wFiles' = r.files
                /\ wPending' = r.pending
                /\ wFmt' = r.fmt
                /\ wLast' = r.last
    /\ wCalls' = wCalls + 1
    /\ UNCHANGED <<stopperVars, cloneVars, resolverVars, pollerVars, namingVars, runVars>>

\* The write write_all waits for has ended: poll_write returns its error, or
\* hands over the next chunk; with the last chunk handed over write_all
\* returns, the entry is pushed and save_segment returns Ok.
WriterWriteAll ==
    /\ wLast.res = "run"
    /\ \A w \in wPending : w.call # wCalls
    /\ IF wLast.io = "write"
       THEN /\ wLast' = [wLast EXCEPT !.res = "err"]
            /\ UNCHANGED <<wManifest, wPending>>
       ELSE \E n \in ChunkSizes(SubSeq(DataOf(wLast), wLast.handed + 1, Len(DataOf(wLast)))) :
            LET done == wLast.handed + n = Len(DataOf(wLast))
            IN  /\ wPending' = wPending \cup
                        {PendingWrite(wCalls, wLast.path, wLast.handed,
                                      SubSeq(DataOf(wLast), wLast.handed + 1, wLast.handed + n))}
                /\ wLast' = [wLast EXCEPT !.handed = @ + n, !.res = IF done THEN "ok" ELSE "run"]
                /\ wManifest' = IF done THEN PushEntry(wManifest, wLast.x, wFmt, wLast.path)
                                ELSE wManifest
    /\ UNCHANGED <<stopperVars, cloneVars, resolverVars, pollerVars, namingVars, runVars,
                   wInit, wFiles, wFmt, wCalls>>

\* A thread of the blocking pool carries out a write: all its bytes reach the
\* file, or the write fails after n < Len(w.bytes) of them. The failure is
\* reported to the File if save_segment still holds it.
WriteLand ==
    \E w \in wPending :
        \E n \in 0..Len(w.bytes) :
            /\ wFiles' = [wFiles EXCEPT ![w.path] = WriteAt(@, w.off, SubSeq(w.bytes, 1, n))]
            /\ wPending' = wPending \ {w}
            /\ wLast' = IF n = Len(w.bytes) \/ w.call # wCalls THEN wLast
                        ELSE [wLast EXCEPT !.io = IF wLast.res = "run" THEN "write"
                                                   ELSE "write_lost"]
            /\ UNCHANGED <<stopperVars, cloneVars, resolverVars, pollerVars, namingVars, runVars,
                           wInit, wManifest, wFmt, wCalls>>

\* ========================================================== specifications

InitRunIdle ==
    /\ noFailFast = FALSE
    /\ served = [t \in Tasks |-> 0]
    /\ handles = <<>>
    /\ pc = [t \in Tasks |-> "done"]
    /\ pres = [t \in Tasks |-> "none"]
    /\ fst = [t \in Tasks |-> LoopState0]
    /\ media_playlist = [t \in Tasks |-> NoPlaylist]
    /\ walked = [t \in Tasks |-> 0]
    /\ wait = [t \in Tasks |-> NoWait]
    /\ failed = FALSE
    /\ ext = "idle"
    /\ queue = <<>>
    /\ inflight = <<>>
    /\ dpc = "returned"
    /\ cur = <<>>
    /\ dres = "none"
    /\ joined = 0
    /\ init_map = [s \in Streams |-> "none"]
    /\ downloaded_segments = [s \in Streams |-> <<>>]
    /\ enq = <<>>
    /\ taken = 0
    /\ lost = {}
    /\ overslept = {}

InitStopperIdle ==
    /\ flag = StopperNew.flag
    /\ waiters = StopperNew.waiters
    /\ stopDone = FALSE
    /\ cpc = [c \in Clones |-> "idle"]
    /\ obs = [c \in Clones |-> "unread"]
    /\ stopCalls = 0

InitResolverIdle ==
    /\ entryKind = "media"
    /\ variants = <<>>
    /\ alternatives = <<>>
    /\ newResult = NoResult

InitPollerIdle ==
    /\ spc = "done"
    /\ sst = LoopState0
    /\ shdr = NoHeader
    /\ sidx = 0
    /\ ssent = <<>>
    /\ sprev = <<>>
    /\ shist = PollerHistory0

InitWriterIdle ==
    /\ wInit = << >>
    /\ wManifest = [s \in WriterStreams |-> <<>>]
    /\ wFiles = << >>
    /\ wPending = {}
    /\ wFmt = "none"
    /\ wLast = NoSave
    /\ wCalls = MaxSaves

InitNamingIdle ==
    /\ nkeys = << >>
    /\ nnames = << <<>>, <<>> >>

InitStopper ==
    /\ flag = StopperNew.flag
    /\ waiters = StopperNew.waiters
    /\ stopDone = FALSE
    /\ cpc = [c \in Clones |-> "idle"]
    /\ obs = [c \in Clones |-> "unread"]
    /\ stopCalls = 0
    /\ InitResolverIdle
    /\ InitPollerIdle
    /\ InitWriterIdle
    /\ InitNamingIdle
    /\ InitRunIdle

NextStopper ==
    \E c \in Clones :
        \/ CloneStopStore(c)
        \/ CloneStopNotify(c)
        \/ CloneStopped(c)
        \/ CloneWaitBegin(c)
        \/ CloneWaitReturn(c)

SpecStopper == InitStopper /\ [][NextStopper]_vars

\* A stop() call that has begun completes, and a woken waiter returns; no clone
\* is obliged to call stop(), stopped() or wait().
FairStopper ==
    /\ SpecStopper
    /\ \A c \in Clones : WF_vars(CloneStopNotify(c))
    /\ \A c \in Clones : WF_vars(CloneWaitReturn(c))

InitResolver ==
    /\ InitStopperIdle
    /\ \/ entryKind = "master" /\ variants \in VariantLists /\ alternatives \in AlternativeLists
       \/ entryKind \in EntryKinds \ {"master"} /\ variants = <<>> /\ alternatives = <<>>
    /\ newResult = NoResult
    /\ InitPollerIdle
    /\ InitWriterIdle
    /\ InitNamingIdle
    /\ InitRunIdle

NextResolver == Resolve

SpecResolver == InitResolver /\ [][NextResolver]_vars

InitPoller ==
    /\ InitStopperIdle
    /\ entryKind = "media"
    /\ variants = <<>>
    /\ alternatives = <<>>
    /\ newResult = NoResult
    /\ spc = "fetch"
    /\ sst = LoopState0
    /\ shdr = NoHeader
    /\ sidx = 0
    /\ ssent = <<>>
    /\ sprev = <<>>
    /\ shist = PollerHistory0
    /\ InitWriterIdle
    /\ InitNamingIdle
    /\ InitRunIdle

NextPoller ==
    \/ PollerFetch
    \/ PollerFetchFail
    \/ PollerSegment
    \/ PollerEndIteration
    \/ PollerWake

SpecPoller == InitPoller /\ [][NextPoller]_vars

\* save_segment starts from the empty maps download creates (mod.rs:203-206)
\* and an empty segments directory.
InitWriter ==
    /\ InitStopperIdle
    /\ InitResolverIdle
    /\ InitPollerIdle
    /\ wInit = << >>
    /\ wManifest = [s \in WriterStreams |-> <<>>]
    /\ wFiles = << >>
    /\ wPending = {}
    /\ wFmt = "none"
    /\ wLast = NoSave
    /\ wCalls = 0
    /\ InitNamingIdle
    /\ InitRunIdle

NextWriter ==
    \/ WriterSave
    \/ WriterWriteAll
    \/ WriteLand

SpecWriter == InitWriter /\ [][NextWriter]_vars

InitNaming ==
    /\ InitStopperIdle
    /\ InitResolverIdle
    /\ InitPollerIdle
    /\ InitWriterIdle
    /\ nkeys \in NamingInputs
    /\ nnames = <<>>
    /\ InitRunIdle

NextNaming == BuildNames

SpecNaming == InitNaming /\ [][NextNaming]_vars

\* download has spawned one task per stream and is about to create the
\* segments directory.
Init ==
    /\ InitStopperIdle
    /\ InitResolverIdle
    /\ InitPollerIdle
    /\ InitWriterIdle
    /\ InitNamingIdle
    /\ noFailFast \in BOOLEAN
    /\ served \in RunShapes
    /\ handles = <<>>
    /\ pc = [t \in Tasks |-> "fetch"]
    /\ pres = [t \in Tasks |-> "none"]
    /\ fst = [t \in Tasks |-> LoopState0]
    /\ media_playlist = [t \in Tasks |-> NoPlaylist]
    /\ walked = [t \in Tasks |-> 0]
    /\ wait = [t \in Tasks |-> NoWait]
    /\ failed = FALSE
    /\ ext = "idle"
    /\ queue = <<>>
    /\ inflight = <<>>
    /\ dpc = "mkdir"
    /\ cur = <<>>
    /\ dres = "none"
    /\ joined = 0
    /\ init_map = [s \in Streams |-> "none"]
    /\ downloaded_segments = [s \in Streams |-> <<>>]
    /\ enq = <<>>
    /\ taken = 0
    /\ lost = {}
    /\ overslept = {}

Next ==
    \/ \E t \in Tasks :
        \/ PollFetch(t)
        \/ PollFetchFail(t)
        \/ PollSegment(t)
        \/ PollSend(t)
        \/ PollEndIteration(t)
        \/ SelectWake(t)
        \/ SelectTimeout(t)
        \/ TaskStopStore(t)
        \/ TaskStopNotify(t)
        \/ TaskStoreFailed(t)
    \/ ExtStopStore
    \/ ExtStopNotify
    \/ DlMkdir
    \/ DlAdmit
    \/ \E i \in 1..MaxConcurrent : FetchComplete(i)
    \/ DlNext
    \/ DlSave
    \/ DlEnd
    \/ DlRemux
    \/ DlJoin

Spec == Init /\ [][Next]_vars

\* The download run with a fair scheduler: the consumer side of download (an
\* awaited future that is ready is polled, a started fetch_segment completes,
\* with Ok or Err) and the tail of a failed poller's task make progress. The
\* pollers themselves, the playlists they are served and the caller's stop()
\* are under no obligation.
FairSpec ==
    /\ Spec
    /\ WF_vars(DlMkdir \/ DlAdmit \/ (\E i \in 1..MaxConcurrent : FetchComplete(i))
                        \/ DlNext \/ DlSave \/ DlEnd \/ DlRemux \/ DlJoin)
    /\ \A t \in Tasks :
        WF_vars(TaskStopStore(t) \/ TaskStopNotify(t) \/ TaskStoreFailed(t))

\* The download run with fair poller tasks: a playlist request completes (the
\* client has a timeout), a sleep or a wake-up ends the select!, and the tail
\* of a failed poller's task runs. The consumer side of download and the
\* caller's stop() are under no obligation.
FairPollers ==
    /\ Spec
    /\ \A t \in Tasks :
        WF_vars(PollFetch(t) \/ PollSegment(t) \/ PollSend(t) \/ PollEndIteration(t)
                    \/ SelectWake(t) \/ SelectTimeout(t)
                    \/ TaskStopStore(t) \/ TaskStopNotify(t) \/ TaskStoreFailed(t))

\* A step of the run itself: of a poller task or of download, not of the
\* caller.
RunStep ==
    \/ \E t \in Tasks :
        \/ PollFetch(t) \/ PollSegment(t) \/ PollSend(t) \/ PollEndIteration(t)
        \/ SelectWake(t) \/ SelectTimeout(t)
        \/ TaskStopStore(t) \/ TaskStopNotify(t) \/ TaskStoreFailed(t)
    \/ DlMkdir \/ DlAdmit \/ (\E i \in 1..MaxConcurrent : FetchComplete(i))
    \/ DlNext \/ DlSave \/ DlEnd \/ DlRemux \/ DlJoin

\* The download run on a runtime that does not stand still: while a poller
\* task or download can take a step (a request, a sleep or a wake-up that
\* completes, a ready future that is polled), one of them does. No single task
\* is promised anything, and the caller's stop() is under no obligation.
FairRun == Spec /\ WF_vars(RunStep)

\* ================================================================= claims

\* ---- Poller (SpecPoller)

\* Keys of the Sequence requests sent so far that matter for the order: the
\* last one sent before the latest step, then those the latest step sent.
RecentKeys == (IF sprev = <<>> THEN <<>> ELSE <<sprev>>) \o SeqKeys(ssent)

\* C1: the ordering keys (discontinuity_generation, sequence_number) of the
\* Sequence requests a poller sends are strictly increasing in lexicographic
\* order over its whole lifetime, whatever playlists the polls return.
EmittedKeysStrictlyIncrease ==
    \A i \in 1..(Len(RecentKeys) - 1) : KeyLT(RecentKeys[i], RecentKeys[i + 1])

\* C1 witness: a later poll returned a playlist whose media sequence went
\* back but whose discontinuity generation advanced, and its segment was sent
\* after an earlier one.
EmittedKeysStrictlyIncreaseWitness ==
    /\ Len(RecentKeys) = 2
    /\ RecentKeys[2][1] > RecentKeys[1][1]
    /\ RecentKeys[2][2] < RecentKeys[1][2]

\* ---- Download run (Spec)

\* The requests of stream s among reqs, in order.
OfStream(reqs, s) == SelectSeq(reqs, LAMBDA r : r.stream = s)

\* Stream -> the keys of the Sequence requests its poller has sent, in order.
emitted == [s \in Streams |-> SeqKeys(OfStream(enq, s))]

\* The fetcher of task t has returned Err.
TaskFailed(t) == pc[t] \in {"stop", "stop_notify", "store"} \/ pres[t] = "err"

AllPollersEnded == \A t \in Tasks : pc[t] = "done"

NoPollerFailed == \A t \in Tasks : ~TaskFailed(t)

NoFetchFailed ==
    /\ \A e \in lost : e.why # "fetch"
    /\ \A i \in 1..Len(inflight) : inflight[i].st # "err"

\* The Sequence request of stream s with key k was handed to save_segment: it
\* is in the manifest, or its save failed.
HandedToWriter(s, k) ==
    \/ \E i \in 1..Len(downloaded_segments[s]) : downloaded_segments[s][i] = k
    \/ [stream |-> s, kind |-> "seq", key |-> k, why |-> "save"] \in lost

AllEmittedHandedToWriter ==
    \A s \in Streams : \A i \in 1..Len(emitted[s]) : HandedToWriter(s, emitted[s][i])

\* download returned the create_dir_all error: nothing was taken from the queue.
ReturnedDirectoryError ==
    /\ dres = "err_io"
    /\ taken = 0
    /\ \A s \in Streams : downloaded_segments[s] = <<>> /\ init_map[s] = "none"

\* The consumer loop was left by the fail-fast break, and download returned
\* an error.
ReturnedAfterBreak ==
    /\ \E e \in lost : e.why = "break"
    /\ failed
    /\ dres \in {"err_remux", "err_poller"}

\* C2 as stated: a failed segment fetch is non-fatal: the segment is absent
\* from the manifest, the consumer loop goes on, and download does not return
\* an error because of it.
FetchFailureIsNonFatal ==
    \A e \in lost :
        e.why = "fetch" =>
            /\ \A i \in 1..Len(downloaded_segments[e.stream]) :
                    downloaded_segments[e.stream][i] # e.key
            /\ dres # "err_fetch"
            /\ dpc # "returned"

\* C4 as stated: with fail-fast enabled, once a poller has failed the Stopper
\* is stopped, no other poller sleeps a full wait that began after the failed
\* poller's stop(), and the result of download is an error.
FailFastStopsSiblingsPromptly ==
    (~noFailFast /\ \E t \in Tasks : pres[t] = "err") =>
        /\ flag
        /\ overslept = {}
        /\ (dpc = "returned" => dres # "ok")

\* C5 as stated, for the runs in which download got its segments directory:
\* with fail-fast disabled a poller failure ends only that poller: no task
\* calls stop() or sets the failure flag, the consumer loop never breaks, and
\* every Sequence request the other pollers sent is handed to the Writer given
\* its fetch and write succeed: once download has returned, each of them is in
\* its stream's manifest unless its own fetch (or that of the Initialization
\* it needs) or its own save failed.
NoFailFastIsolatesFailure ==
    noFailFast =>
        /\ \A t \in Tasks : pc[t] \notin {"stop", "stop_notify", "store"}
        /\ failed = FALSE
        /\ \A e \in lost : e.why # "break"
        /\ (dpc = "returned" /\ dres # "err_io" /\ \E q \in Tasks : TaskFailed(q)) =>
                \A t \in Tasks : ~TaskFailed(t) =>
                    \A i \in 1..Len(emitted[StreamOf(t)]) :
                        \/ HandedToWriter(StreamOf(t), emitted[StreamOf(t)][i])
                        \/ [stream |-> StreamOf(t), kind |-> "seq",
                            key |-> emitted[StreamOf(t)][i], why |-> "fetch"] \in lost
                        \/ \E e \in lost : /\ e.stream = StreamOf(t)
                                            /\ e.kind = "init" /\ e.why = "fetch"

\* C6: whenever download has returned and a poller has returned an error,
\* download's result is an error, in both fail-fast modes.
PollerErrorIsSurfaced ==
    (dpc = "returned" /\ \E t \in Tasks : TaskFailed(t)) => dres \notin {"ok", "none"}

\* C6 witness: fail-fast disabled, the audio poller failed, the main stream's
\* segments were captured, and download returned the poller's error.
PollerErrorIsSurfacedWitness ==
    /\ dpc = "returned"
    /\ dres = "err_poller"
    /\ noFailFast
    /\ pres["t2"] = "err"
    /\ pres["t1"] = "ok"
    /\ Len(downloaded_segments[MainStream]) = 2

\* ---- Stopper (SpecStopper, FairStopper)

\* C7: the Stopper flag is monotone and shared. No step resets a set flag; once
\* some stop() has returned the flag is set, every later stopped() of every
\* clone returns true, and further stop() calls leave it set.
StopperMonotone ==
    [][ /\ (flag => flag')
        /\ (stopDone' => flag')
        /\ \A c \in Clones : (stopDone /\ CloneStopped(c)) => obs'[c] = "T" ]_vars

\* C7 witness: two stop() calls have run and returned, and a clone has read
\* the flag as set while another clone is waiting.
StopperMonotoneWitness ==
    /\ stopDone
    /\ stopCalls >= 2
    /\ \A c \in Clones : cpc[c] # "stop_notify"
    /\ \E c \in Clones : obs[c] = "T"
    /\ \E c \in Clones : cpc[c] = "waiting"

\* C8: stop() wakes every current and every future waiter: a clone that is in
\* wait() once a stop() has returned, whenever its wait() began, eventually
\* returns from it.
StopWakesEveryWaiter ==
    \A c \in Clones : [](((cpc[c] = "waiting") /\ stopDone) => <>(cpc[c] # "waiting"))

\* ---- Resolver (SpecResolver)

\* Indices of the variants whose bandwidth parses as an unsigned integer.
ParsableIdx == { i \in 1..Len(variants) : ParseU64(variants[i].bandwidth) # NoneU64 }

\* Indices of the variants that declare the numerically largest bandwidth.
LargestIdx ==
    { i \in ParsableIdx :
        \A j \in ParsableIdx :
            ParseU64(variants[i].bandwidth) >= ParseU64(variants[j].bandwidth) }

\* Some alternative of a group the variant v names has a URI that
\* make_absolute_url rejects.
BadAlternativeOf(v) ==
    \E i \in 1..Len(alternatives) :
        /\ alternatives[i].group_id \in {v.audio, v.video, v.subtitles}
        /\ MakeAbsoluteUrl(alternatives[i].uri) = "err"

\* C9: for a variant index, Main is a variant whose bandwidth is the numeric
\* maximum over the variants with a parsable bandwidth; unparsable ones are
\* ignored; with no parsable bandwidth the resolver fails. (With a parsable
\* bandwidth it fails only on a URI it cannot resolve, of such a variant or
\* of one of its alternatives.)
MainIsLargestBandwidth ==
    (newResult.st # "pending" /\ entryKind = "master") =>
        /\ (ParsableIdx = {}) => (newResult.st = "err" /\ newResult.err = "No streams found")
        /\ (ParsableIdx # {}) =>
                \/ /\ newResult.st = "ok"
                   /\ newResult.idx \in LargestIdx
                   /\ newResult.streams[MainStream] = MakeAbsoluteUrl(variants[newResult.idx].uri)
                \/ /\ newResult.st = "err"
                   /\ newResult.err = "url"
                   /\ \E i \in LargestIdx :
                        variants[i].uri = "::bad" \/ BadAlternativeOf(variants[i])

\* C9 witness: two variants, the larger one first and smaller as a string; it
\* was registered as Main, and the rendition of its audio group as Audio.
MainIsLargestBandwidthWitness ==
    /\ newResult.st = "ok"
    /\ entryKind = "master"
    /\ Len(variants) = 2
    /\ ParseU64(variants[1].bandwidth) = 11
    /\ ParseU64(variants[2].bandwidth) = 2
    /\ newResult.idx = 1
    /\ AudioStream \in DOMAIN newResult.streams

\* Least and greatest element of a non-empty set of indices.
MinOf(S) == CHOOSE i \in S : \A j \in S : i <= j
MaxOf(S) == CHOOSE i \in S : \A j \in S : i >= j

\* C10 as stated: of several variants sharing the largest bandwidth, the first
\* in source order becomes Main.
TieSelectsFirst ==
    (newResult.st = "ok" /\ entryKind = "master") => newResult.idx = MinOf(LargestIdx)

\* C10 amended: of several variants sharing the largest bandwidth, the last in
\* source order becomes Main.
TieSelectsLast ==
    (newResult.st = "ok" /\ entryKind = "master") => newResult.idx = MaxOf(LargestIdx)

\* C10 witness: two variants with different URIs share the largest bandwidth
\* and the resolver has registered one of them.
TieSelectsLastWitness ==
    /\ newResult.st = "ok"
    /\ entryKind = "master"
    /\ Cardinality(LargestIdx) >= 2
    /\ \E i, j \in LargestIdx : variants[i].uri # variants[j].uri

\* ---- Writer (SpecWriter)

\* C3 as stated: when saving a Sequence tuple fails (format detection, file
\* creation or the file write fails), no entry is appended to any manifest and
\* the initialization cache is unchanged: at every step that leaves the latest
\* save_segment call with a failed detection, creation or write, the step
\* changes neither the manifests nor the cache, and the manifest of the call's
\* stream has the entries it had when the call began.
SaveFailureSkipsSegment ==
    [][ wLast'.io \in {"detect", "create", "write", "write_lost"} =>
            /\ wManifest' = wManifest
            /\ wInit' = wInit
            /\ Len(wManifest'[wLast'.x.stream]) = wLast'.had ]_vars

\* C11 as stated: the bytes save_segment writes to the file of a Sequence
\* segment are the stream's cached initialization bytes followed by the
\* segment's bytes (the segment's bytes alone if none is cached): once the
\* call has returned Ok and no write is left to carry out, the file at the
\* call's path holds exactly these bytes.
WrittenBytesAreInitThenSegment ==
    (wLast.res = "ok" /\ wLast.x.kind = "seq" /\ wPending = {}) =>
        /\ wLast.path \in DOMAIN wFiles
        /\ wFiles[wLast.path] =
                (IF wLast.cached THEN wLast.init \o wLast.x.bytes ELSE wLast.x.bytes)

\* ---- File names (SpecNaming)

\* C12: for two Sequence segments of one stream with ordering keys k1 < k2
\* (any u64 values), the file name built from k1 sorts lexicographically before
\* the file name built from k2.
FileNamesSortLikeKeys ==
    (nnames # <<>> /\ nkeys # <<>> /\ U64KeyLess(nkeys.k1, nkeys.k2)) =>
        StrLess(nnames[1], nnames[2])

\* ---- Poller, continued (SpecPoller)

\* C13: an iteration over a playlist every segment of which has a key <= the
\* key the poller last emitted sends no request, leaves last_seg and
\* init_downloaded as they were, and chooses the half-target-duration wait.
ConsumedPlaylistEmitsNothing ==
    (shist.allOld /\ sst.res \in {"run", "ok"}) =>
        /\ shist.nsent = 0
        /\ sst.last_seg = shist.last0
        /\ sst.init_downloaded = shist.init0
        /\ (spc = "sleep" => shist.wait = "half")

\* C13 witness: the poller sleeps after walking a full playlist of segments
\* that were all at or below the key it had emitted before.
ConsumedPlaylistEmitsNothingWitness ==
    /\ spc = "sleep"
    /\ shist.allOld
    /\ shist.last0 # <<>>
    /\ Len(shist.discs) = MaxSegs
    /\ shist.wait = "half"

\* C14: over a poller's lifetime at most one Initialization request is sent;
\* it is sent for the first non-skipped segment that carries a map, carries
\* Encryption::None, and nothing is sent between it and that segment's
\* Sequence request; later segments that carry a map send none.
AtMostOneInitialization ==
    /\ shist.ninit <= 1
    /\ (shist.ninit = 1) = sst.init_downloaded
    /\ \A i \in 1..Len(ssent) :
        ssent[i].kind = "init" =>
            /\ i = 1
            /\ ssent[i].enc = "None"
            /\ shist.mapNow /\ ~shist.mapBefore
            /\ (Len(ssent) > 1 =>
                    /\ ssent[2].kind = "seq"
                    /\ ssent[2].key = sst.last_seg)
    /\ (shist.mapNow /\ shist.mapBefore /\ sst.res = "run") =>
            \A i \in 1..Len(ssent) : ssent[i].kind # "init"

\* C14 witness: in a later iteration than the one that sent the
\* Initialization request, a segment carrying another map was sent.
AtMostOneInitializationWitness ==
    /\ shist.ninit = 1
    /\ shist.mapNow /\ shist.mapBefore
    /\ shist.init0
    /\ Len(ssent) = 1
    /\ ssent[1].kind = "seq"

\* C15: the encryption context persists across segments and iterations until
\* the playlist declares a new key: every Sequence request carries the context
\* that Encryption::new last resolved for a non-skipped segment, in this
\* iteration or an earlier one.
EncryptionPersistsAcrossIterations ==
    \A i \in 1..Len(ssent) :
        ssent[i].kind = "seq" => ssent[i].enc = shist.resolved

\* C20 as stated: the i-th segment (0-based) of a playlist gets sequence number
\* media-sequence base + i and discontinuity generation = the number of
\* segments at positions 0..i marked as a discontinuity.
DisconMarksSoFar == Cardinality({ j \in 1..Len(shist.discs) : shist.discs[j] })

GenerationIsRunningCount ==
    \A i \in 1..Len(ssent) :
        ssent[i].kind = "seq" =>
            ssent[i].key = <<DisconMarksSoFar, shdr.media_sequence + (sidx - 1)>>

\* C20: the i-th segment (0-based) of a playlist gets sequence number
\* media-sequence base + i and discontinuity generation = the playlist's
\* discontinuity-sequence base + the number of segments at positions 0..i
\* marked as a discontinuity; the count restarts with each fetched playlist.
GenerationIsBasePlusRunningCount ==
    \A i \in 1..Len(ssent) :
        ssent[i].kind = "seq" =>
            ssent[i].key = <<shdr.discontinuity_sequence + DisconMarksSoFar,
                             shdr.media_sequence + (sidx - 1)>>

\* C20 witness: the second segment of a playlist with a non-zero
\* discontinuity-sequence base was sent, it is marked as a discontinuity, and
\* an earlier iteration had walked a marked segment too.
GenerationIsBasePlusRunningCountWitness ==
    /\ sidx = 2
    /\ shdr.discontinuity_sequence = 1
    /\ shist.discs = <<FALSE, TRUE>>
    /\ shist.last0 # <<>>
    /\ Len(ssent) = 1
    /\ ssent[1].kind = "seq"
    /\ ssent[1].key = <<2, shdr.media_sequence + 1>>

\* ---- Download run, continued (Spec, FairSpec)

\* C16: in every reachable state of a download run at most
\* max_concurrent_downloads segment fetches are in flight, however many
\* requests the pollers have queued; the others stay in the queue.
InFlightBounded == Len(inflight) <= MaxConcurrent

\* C16 witness: the fetch stage is full and a request waits in the queue.
InFlightBoundedWitness ==
    /\ dpc = "loop"
    /\ Len(inflight) = MaxConcurrent
    /\ queue # <<>>

\* C17: when the consumer loop receives a completed fetch while stopped() is
\* true and the failure flag is set, it stops at once: that fetch is neither
\* cached nor saved nor added to a manifest, and after the loop nothing more is
\* pulled from the queue or the fetch stage and nothing is saved.
BreakAbandonsPipeline ==
    [][ /\ (dpc = "loop" /\ flag /\ failed /\ Len(inflight') < Len(inflight)) =>
            (dpc' = "remux" /\ UNCHANGED <<init_map, downloaded_segments>>)
        /\ (dpc \in {"remux", "join", "returned"}) =>
            /\ dpc' \notin {"loop", "save"}
            /\ UNCHANGED <<init_map, downloaded_segments>>
            /\ inflight' = inflight \/ (dpc' = "returned" /\ inflight' = <<>>)
            /\ Len(queue') >= Len(queue) \/ (dpc' = "returned" /\ queue' = <<>>) ]_vars

\* C17 witness: the loop broke on a completed fetch and left a fetch in
\* flight and a request in the queue.
BreakAbandonsPipelineWitness ==
    /\ dpc \in {"remux", "join", "returned"}
    /\ \E e \in lost : e.why = "break"
    /\ inflight # <<>>
    /\ queue # <<>>

\* C18 as stated: under fairness, once every poller has ended download
\* returns, and if no fetch failed every request the pollers enqueued was
\* fetched and handed to the Writer.
PollersEndedAllSaved ==
    /\ [](AllPollersEnded => <>(dpc = "returned"))
    /\ []((dpc = "returned" /\ AllPollersEnded /\ NoFetchFailed) => AllEmittedHandedToWriter)

\* C18: under fairness, once every poller has ended download returns. When it
\* has returned with every poller ended and no fetch failed, one of three
\* things happened: create_dir_all failed and download returned its error
\* before taking anything from the queue; or the consumer loop was left by the
\* fail-fast break (a poller had failed) and download returned an error; or
\* every request the pollers enqueued was fetched and handed to the Writer.
PollersEndedAllSavedUnlessBreak ==
    /\ [](AllPollersEnded => <>(dpc = "returned"))
    /\ []((dpc = "returned" /\ AllPollersEnded /\ NoFetchFailed) =>
            \/ ReturnedDirectoryError
            \/ ReturnedAfterBreak
            \/ AllEmittedHandedToWriter)

\* C18 witness: both pollers ended at the end of their playlists, download
\* returned Ok, and the two Sequence requests of the main stream are in its
\* manifest.
PollersEndedAllSavedUnlessBreakWitness ==
    /\ dpc = "returned"
    /\ dres = "ok"
    /\ \A t \in Tasks : pres[t] = "ok"
    /\ ~flag
    /\ Len(emitted[MainStream]) = 2
    /\ downloaded_segments[MainStream] = emitted[MainStream]

\* C19: whenever download has returned, with Ok or with any error, every
\* poller task the run spawned has terminated.
ReturnedImpliesPollersJoined ==
    dpc = "returned" => \A t \in Tasks : pc[t] = "done"

\* ---- Download run, cancellation (Spec, FairPollers)

\* C21: once a stop() call has completed, every poller starts at most one
\* further playlist fetch and then terminates. A poller requests a playlist
\* only at the top of its loop ("fetch"), so: after stop() no poller that is
\* walking a playlist, between the two sends of a segment or in the select!
\* comes back to the top of its loop, and eventually every poller task has
\* ended.
StopEndsPollersAfterOneFetch ==
    /\ [][ stopDone => \A t \in Tasks : pc[t] # "fetch" => pc'[t] # "fetch" ]_vars
    /\ [](stopDone => <>(\A t \in Tasks : pc[t] = "done"))

\* C21 witness: after a stop() a poller finished one more iteration, sent its
\* new segment, slept its full wait and then ended with Ok.
StopEndsPollersAfterOneFetchWitness ==
    /\ stopDone
    /\ \E t \in overslept :
        /\ pc[t] = "done"
        /\ pres[t] = "ok"
        /\ emitted[StreamOf(t)] # <<>>

\* C22: the poller-failure flag being set implies the Stopper is stopped,
\* with fail-fast disabled the flag is never set, and so the consumer's break
\* condition is true exactly when the failure flag is set.
FailureFlagImpliesStopped ==
    /\ failed => flag
    /\ noFailFast => ~failed
    /\ BreakNow(flag, failed) <=> failed

\* C22 witness: a poller failed with fail-fast enabled while the consumer
\* loop has a fetch in progress.
FailureFlagImpliesStoppedWitness ==
    /\ failed
    /\ ~noFailFast
    /\ dpc = "loop"
    /\ inflight # <<>>

\* C23: the Writer gets the completed fetches in the order their requests
\* were enqueued, even when fetches complete out of order: the tuple
\* save_segment is called with is that of the n-th request enqueued, n being
\* the number of results the fetch stage has yielded; every stream's manifest
\* lists its segments in strictly increasing key order; and when save_segment
\* is called with a Sequence tuple whose stream had an Initialization request
\* enqueued before it, that Initialization is already cached.
ManifestsInKeyOrder ==
    /\ dpc = "save" => (taken \in 1..Len(enq) /\ cur = enq[taken])
    /\ \A s \in Streams : \A i \in 1..(Len(downloaded_segments[s]) - 1) :
        KeyLT(downloaded_segments[s][i], downloaded_segments[s][i + 1])
    /\ (dpc = "save" /\ cur.kind = "seq") =>
            \A i \in 1..(taken - 1) :
                (enq[i].kind = "init" /\ enq[i].stream = cur.stream) =>
                    init_map[cur.stream] = enq[i].url

\* C23 witness: the fetch of a Sequence segment of the main stream has
\* completed while the fetch of the stream's initialization, enqueued before
\* it, is still in progress; the segment has not been written.
ManifestsInKeyOrderWitness ==
    /\ dpc = "loop"
    /\ Len(inflight) = 2
    /\ inflight[1].req.kind = "init"
    /\ inflight[1].st = "pending"
    /\ inflight[2].req.kind = "seq"
    /\ inflight[2].req.stream = inflight[1].req.stream
    /\ inflight[2].st = "ok"
    /\ downloaded_segments[inflight[2].req.stream] = <<>>

ManifestPathsDistinct ==
    \A s1 \in WriterStreams, s2 \in WriterStreams :
        \A i \in 1..Len(wManifest[s1]), j \in 1..Len(wManifest[s2]) :
            (s1 # s2 \/ wManifest[s1][i][1] # wManifest[s2][j][1]) =>
                wManifest[s1][i][3] # wManifest[s2][j][3]

====
